---- MODULE Spec2Model ----
(***************************************************************************)
(* State-machine model of apps/rpc_tester/rpc_tester.cc: the main driver   *)
(* (seastar::async body), one context per execution unit (shard), the      *)
(* job_rpc call loops, and the peers on the other side of the RPC          *)
(* connections (replies, failures, inbound verbs) as the environment.      *)
(***************************************************************************)
EXTENDS Integers, Sequences, FiniteSets, TLC

\* ------------------------------------------------------------------ bounds
NumUnits == 2      \* smp::count, the number of execution units
MaxJobs == 2       \* longest cfg.jobs
MaxPar == 2        \* largest job_config::parallelism
MaxDur == 1        \* largest --duration, in clock ticks
MaxClock == 2      \* steady_clock values are 0..MaxClock
MaxCalls == 4      \* a loop re-issues a call only while the run has issued fewer
MaxInbound == 2    \* inbound messages the servers of one run handle
MaxLoad == 3       \* most concurrent activities of one run: smp::count *
                   \* (call loops of the configuration + 1 for a listener)

\* rpc_verb
HELLO == "HELLO"
BYE == "BYE"
ECHO == "ECHO"

\* job_config as YAML::convert<job_config>::decode leaves it: verb and
\* parallelism are read only for type "rpc"; sg is default_scheduling_group().
DefaultSg == 0
JobConfigs ==
    [type : {"rpc"}, verb : {"echo"}, parallelism : 1..MaxPar, sg : {DefaultSg}]
    \cup [type : {"rpc"}, verb : {"ping"}, parallelism : {1}, sg : {DefaultSg}]
    \cup [type : {"file"}, verb : {""}, parallelism : {0}, sg : {DefaultSg}]

JobLists == UNION {[1..n -> JobConfigs] : n \in 0..MaxJobs}

\* main: jc.duration = duration, for every job of the configuration
WithDuration(jl, d) ==
    [j \in DOMAIN jl |->
        [type |-> jl[j].type, verb |-> jl[j].verb, parallelism |-> jl[j].parallelism,
         sg |-> jl[j].sg, duration |-> d]]

RECURSIVE SumSeq(_)
SumSeq(s) == IF s = <<>> THEN 0 ELSE Head(s) + SumSeq(Tail(s))

\* the call loops a configuration asks of one unit
TotalPar(jl) == SumSeq([j \in DOMAIN jl |-> jl[j].parallelism])

\* the concurrent activities a run asks of one unit
Load(l, jl) == TotalPar(jl) + (IF l THEN 1 ELSE 0)

VARIABLES
    smp,        \* smp::count
    laddr,      \* --listen given
    caddr,      \* --connect given
    duration,   \* --duration
    cfgJobs,    \* cfg.jobs in main
    now,        \* std::chrono::steady_clock::now()
    mainpc,     \* position of the seastar::async body of main
    ctx,        \* per unit: "none", "ok" (constructed), "threw" (constructor threw)
    started,    \* per unit: endpoints the constructor created ("server", "client")
    stopped,    \* per unit: endpoints on which stop() was called
    jobs,       \* per unit: context::_jobs
    bye,        \* per unit: context::_bye, "unset" or "set"
    byeCalls,   \* per unit: executions of _bye.set_value()
    rcvd,       \* per unit: verbs whose handler has run
    sent,       \* per unit: verbs the client has sent
    hello,      \* per unit: the HELLO call: "none", "inflight", "acked", "failed"
    byeCall,    \* per unit: the BYE call:   "none", "inflight", "acked", "failed"
    echo,       \* per unit, job, loop: ECHO calls awaiting their response
    startF,     \* per unit: future of context::start
    runF,       \* per unit: future of context::run
    stopF,      \* per unit: future of context::stop
    report,     \* the emitted YAML document, <<>> before it is emitted
    codec       \* one value on its way through write(serializer, ...) and
                \* read(serializer, ...)

vars == <<smp, laddr, caddr, duration, cfgJobs, now, mainpc, ctx, started, stopped, jobs,
          bye, byeCalls, rcvd, sent, hello, byeCall, echo, startF, runF, stopF, report,
          codec>>

cfgVars == <<smp, laddr, caddr, duration>>

\* the execution units of the run
Units == 1..smp
netVars == <<sent, hello, byeCall, echo>>
srvVars == <<bye, byeCalls, rcvd>>

\* ----------------------------------------------------------------- futures
Resolved(f) == f \in {"ok", "failed"}

\* parallel_for_each / invoke_on_all: ready once every future is resolved
AllResolved(fs) == \A i \in DOMAIN fs : Resolved(fs[i])

\* ... and failed if any of them failed
AnyFailed(fs) == \E i \in DOMAIN fs : fs[i] = "failed"

MaxOfLast(a, b) == b
MaxOf(a, b) == IF a >= b THEN a ELSE b

\* the process is running: main has neither returned, thrown nor aborted
Alive == mainpc \notin {"done", "failed", "aborted"}

IsClient(u) == "client" \in started[u]
IsServer(u) == "server" \in started[u]

\* -------------------------------------------------------------- accumulator
\* accumulator_set<double, stats<extended_p_square_quantile, mean, max>>:
\* max starts at the lowest double, below every latency.
NoMax == -1
EmptyAcc == [count |-> 0, sum |-> 0, max |-> NoMax]

ObserveLost(acc, x) == acc
Observe(acc, x) ==
    [count |-> acc.count + 1, sum |-> acc.sum + x, max |-> MaxOf(acc.max, x)]

\* ---------------------------------------------------------------- job_rpc
\* make_job: any type but "rpc" throws "unknown job type"
MakeJobThrows(jc) == jc.type # "rpc"

\* job_rpc::job_rpc: any verb but "echo" throws "unknown verb"
JobRpcThrows(jc) == jc.verb # "echo"

\* job_rpc::job_rpc, constructed at clock t; `samples` is the history of the
\* latencies given to _latencies, in the order the loops gave them
NewJob(jc, t) ==
    [cfg |-> jc, stop |-> t + jc.duration, total |-> 0, acc |-> EmptyAcc,
     samples |-> <<>>, loops |-> <<>>, fut |-> "none"]

\* the stop condition of do_until
StopCondAtDeadline(t, stop) == t >= stop
StopCond(t, stop) == t > stop

\* _total_messages++
IncTotalNot(n) == n
IncTotal(n) == n + 1

\* boost::irange(0u, _cfg.parallelism): one loop per index
LoopRangeClosed(par) == 1..(par + 1)
LoopRange(par) == 1..par

\* the future of one do_until loop
LoopFut(l) ==
    CASE l.st = "done" -> "ok"
      [] l.st = "failed" -> "failed"
      [] OTHER -> "pending"

LoopFuts(ls) == [k \in DOMAIN ls |-> LoopFut(ls[k])]

\* parallel_for_each over the loops: ready when every loop has resolved
JobRunReadyAny(ls) == \E k \in DOMAIN ls : Resolved(LoopFut(ls[k]))
JobRunReady(ls) == AllResolved(LoopFuts(ls))

\* ... failed if any loop failed
JobRunOutcomeSwallow(ls) == "ok"
JobRunOutcome(ls) == IF AnyFailed(LoopFuts(ls)) THEN "failed" ELSE "ok"

JobFuts(js) == [j \in DOMAIN js |-> js[j].fut]

\* the serializer at rest: no value is being written or read
CodecIdle == [pc |-> "idle"]

\* ------------------------------------------------------------------- Init
Init ==
    /\ codec = CodecIdle
    /\ smp \in 1..NumUnits
    /\ laddr \in BOOLEAN
    /\ caddr \in BOOLEAN
    /\ duration \in 0..MaxDur
    /\ cfgJobs \in {WithDuration(jl, duration) : jl \in JobLists}
    /\ smp * Load(laddr, cfgJobs) <= MaxLoad
    /\ now = 0
    /\ mainpc = "sg"
    /\ ctx = [u \in Units |-> "none"]
    /\ started = [u \in Units |-> {}]
    /\ stopped = [u \in Units |-> {}]
    /\ jobs = [u \in Units |-> <<>>]
    /\ bye = [u \in Units |-> "unset"]
    /\ byeCalls = [u \in Units |-> 0]
    /\ rcvd = [u \in Units |-> {}]
    /\ sent = [u \in Units |-> {}]
    /\ hello = [u \in Units |-> "none"]
    /\ byeCall = [u \in Units |-> "none"]
    /\ echo = [u \in Units |-> <<>>]
    /\ startF = [u \in Units |-> "none"]
    /\ runF = [u \in Units |-> "none"]
    /\ stopF = [u \in Units |-> "none"]
    /\ report = <<>>

\* steady_clock advances on its own; its value is read only by job_rpc (its
\* constructor and its loops), so it is tracked while jobs exist and may run
Tick ==
    /\ caddr
    /\ mainpc \in {"construct", "start", "run"}
    /\ now < MaxClock
    /\ now' = now + 1
    /\ UNCHANGED <<codec, cfgVars, cfgJobs, mainpc, ctx, started, stopped, jobs, srvVars,
                   netVars, startF, runF, stopF, report>>

\* ------------------------------------------------------------------- main
\* create_scheduling_group for every job, jc.sg = sg
CreateGroupsByValue ==
    /\ mainpc = "sg"
    /\ mainpc' = "construct"
    /\ UNCHANGED <<codec, cfgVars, cfgJobs, now, ctx, started, stopped, jobs, srvVars, netVars,
                   startF, runF, stopF, report>>

CreateGroups ==
    /\ mainpc = "sg"
    /\ cfgJobs' = [j \in DOMAIN cfgJobs |-> [cfgJobs[j] EXCEPT !.sg = j]]
    /\ mainpc' = "construct"
    /\ UNCHANGED <<codec, cfgVars, now, ctx, started, stopped, jobs, srvVars, netVars,
                   startF, runF, stopF, report>>

\* the endpoints context::context creates before it makes the jobs
EndpointsOf(l, c) ==
    (IF l THEN {"server"} ELSE {}) \cup (IF c THEN {"client"} ELSE {})

\* the loop over _cfg.jobs throws at the first job make_job rejects
ConstructorThrows(c, jcs) ==
    c /\ \E j \in DOMAIN jcs : MakeJobThrows(jcs[j]) \/ JobRpcThrows(jcs[j])

\* context::context on unit u (ctx.start constructs one on every unit)
Construct(u) ==
    /\ mainpc = "construct"
    /\ ctx[u] = "none"
    /\ started' = [started EXCEPT ![u] = EndpointsOf(laddr, caddr)]
    /\ IF ConstructorThrows(caddr, cfgJobs)
         THEN /\ ctx' = [ctx EXCEPT ![u] = "threw"]
              /\ UNCHANGED <<jobs, echo>>
         ELSE /\ ctx' = [ctx EXCEPT ![u] = "ok"]
              /\ jobs' = [jobs EXCEPT ![u] =
                            IF caddr THEN [j \in DOMAIN cfgJobs |-> NewJob(cfgJobs[j], now)]
                                     ELSE <<>>]
              /\ echo' = [echo EXCEPT ![u] =
                            IF caddr THEN [j \in DOMAIN cfgJobs |-> <<>>] ELSE <<>>]
    /\ UNCHANGED <<codec, cfgVars, cfgJobs, now, mainpc, stopped, srvVars, sent, hello, byeCall,
                   startF, runF, stopF, report>>

\* ctx.start(...).get()
ConstructDone ==
    /\ mainpc = "construct"
    /\ \A u \in Units : ctx[u] # "none"
    /\ mainpc' = IF \E u \in Units : ctx[u] = "threw" THEN "failed" ELSE "start"
    /\ UNCHANGED <<codec, cfgVars, cfgJobs, now, ctx, started, stopped, jobs, srvVars, netVars,
                   startF, runF, stopF, report>>

\* the future context::start returns
StartFutureReady(isClient) == "ok"
StartFuture(isClient) == IF isClient THEN "pending" ELSE "ok"

\* context::start on unit u
StartCall(u) ==
    /\ mainpc = "start"
    /\ startF[u] = "none"
    /\ startF' = [startF EXCEPT ![u] = StartFuture(IsClient(u))]
    /\ IF IsClient(u)
         THEN /\ hello' = [hello EXCEPT ![u] = "inflight"]
              /\ sent' = [sent EXCEPT ![u] = @ \cup {HELLO}]
         ELSE UNCHANGED <<hello, sent>>
    /\ UNCHANGED <<codec, cfgVars, cfgJobs, now, mainpc, ctx, started, stopped, jobs, srvVars,
                   byeCall, echo, runF, stopF, report>>

\* the peer answers HELLO, or the call fails
HelloReply(u, ok) ==
    /\ Alive
    /\ hello[u] = "inflight"
    /\ hello' = [hello EXCEPT ![u] = IF ok THEN "acked" ELSE "failed"]
    /\ startF' = [startF EXCEPT ![u] =
                    IF @ = "pending" THEN (IF ok THEN "ok" ELSE "failed") ELSE @]
    /\ UNCHANGED <<codec, cfgVars, cfgJobs, now, mainpc, ctx, started, stopped, jobs, srvVars,
                   sent, byeCall, echo, runF, stopF, report>>

\* ctx.invoke_on_all(&context::start).get()
StartDone ==
    /\ mainpc = "start"
    /\ AllResolved(startF)
    /\ mainpc' = IF AnyFailed(startF) THEN "failed" ELSE "run"
    /\ UNCHANGED <<codec, cfgVars, cfgJobs, now, ctx, started, stopped, jobs, srvVars, netVars,
                   startF, runF, stopF, report>>

\* the future context::run returns to a server-only context: _bye.get_future()
ByeFutureMissed(b) == "pending"
ByeFuture(b) == IF b = "set" THEN "ok" ELSE "pending"

\* context::run on unit u
RunCall(u) ==
    /\ mainpc = "run"
    /\ runF[u] = "none"
    /\ IF IsClient(u)
         THEN /\ runF' = [runF EXCEPT ![u] = IF jobs[u] = <<>> THEN "ok" ELSE "pending"]
              /\ jobs' = [jobs EXCEPT ![u] =
                            [j \in DOMAIN jobs[u] |-> [jobs[u][j] EXCEPT !.fut = "pending"]]]
         ELSE /\ runF' = [runF EXCEPT ![u] = IF IsServer(u) THEN ByeFuture(bye[u]) ELSE "ok"]
              /\ UNCHANGED jobs
    /\ UNCHANGED <<codec, cfgVars, cfgJobs, now, mainpc, ctx, started, stopped, srvVars, netVars,
                   startF, stopF, report>>

\* one pass of do_until at clock t for a loop of job jb running under group sg:
\* the loop ends if the deadline has passed, else it issues a call stamped t
LoopPassInverted(jb, sg, t) ==
    IF ~StopCond(t, jb.stop)
      THEN [st |-> "done", start |-> 0, sg |-> sg]
      ELSE [st |-> "await", start |-> t, sg |-> sg]

LoopPass(jb, sg, t) ==
    IF StopCond(t, jb.stop)
      THEN [st |-> "done", start |-> 0, sg |-> sg]
      ELSE [st |-> "await", start |-> t, sg |-> sg]

\* job_rpc::run once with_scheduling_group has switched to _cfg.sg: every
\* loop of parallel_for_each makes its first pass
JobStart(u, j) ==
    /\ Alive
    /\ j \in DOMAIN jobs[u]
    /\ jobs[u][j].fut = "pending"
    /\ jobs[u][j].loops = <<>>
    /\ LET jb == jobs[u][j]
           ks == LoopRange(jb.cfg.parallelism)
           ls == [k \in ks |-> LoopPass(jb, jb.cfg.sg, now)]
           issued == [k \in ks |-> IF ls[k].st = "await" THEN 1 ELSE 0]
           tot == IF StopCond(now, jb.stop) THEN jb.total
                  ELSE jb.total + (IncTotal(0) * Cardinality(ks))
       IN /\ jobs' = [jobs EXCEPT ![u][j] = [jb EXCEPT !.loops = ls, !.total = tot]]
          /\ echo' = [echo EXCEPT ![u][j] = issued]
          /\ sent' = [sent EXCEPT ![u] = IF SumSeq(issued) > 0 THEN @ \cup {ECHO} ELSE @]
    /\ UNCHANGED <<codec, cfgVars, cfgJobs, now, mainpc, ctx, started, stopped, srvVars, hello,
                   byeCall, startF, runF, stopF, report>>

\* the ECHO calls the run has issued so far
Issued ==
    SumSeq([u \in Units |-> SumSeq([j \in DOMAIN jobs[u] |-> jobs[u][j].total])])

\* the response to the ECHO call of loop k arrives (ok), or the call fails:
\* the continuation feeds the latency to _latencies and do_until makes its
\* next pass; a failed call resolves the loop with the exception
EchoReply(u, j, k, ok) ==
    /\ Alive
    /\ j \in DOMAIN jobs[u]
    /\ k \in DOMAIN echo[u][j]
    /\ echo[u][j][k] > 0
    /\ LET jb == jobs[u][j]
           l == jb.loops[k]
           lat == now - l.start
           nl == LoopPass(jb, l.sg, now)
       IN IF ok
            THEN /\ nl.st = "await" => Issued < MaxCalls
                 /\ jobs' = [jobs EXCEPT ![u][j] =
                       [jb EXCEPT !.acc = Observe(jb.acc, lat),
                                  !.samples = Append(@, lat),
                                  !.loops[k] = nl,
                                  !.total = IF nl.st = "await" THEN IncTotal(@) ELSE @]]
                 /\ echo' = [echo EXCEPT ![u][j][k] =
                               IF nl.st = "await" THEN @ ELSE @ - 1]
            ELSE /\ jobs' = [jobs EXCEPT ![u][j].loops[k].st = "failed"]
                 /\ echo' = [echo EXCEPT ![u][j][k] = @ - 1]
    /\ UNCHANGED <<codec, cfgVars, cfgJobs, now, mainpc, ctx, started, stopped, srvVars, sent,
                   hello, byeCall, startF, runF, stopF, report>>

\* the future of job_rpc::run resolves
JobResolve(u, j) ==
    /\ Alive
    /\ j \in DOMAIN jobs[u]
    /\ jobs[u][j].fut = "pending"
    /\ jobs[u][j].loops # <<>>
    /\ JobRunReady(jobs[u][j].loops)
    /\ jobs' = [jobs EXCEPT ![u][j].fut = JobRunOutcome(jobs[u][j].loops)]
    /\ UNCHANGED <<codec, cfgVars, cfgJobs, now, mainpc, ctx, started, stopped, srvVars, netVars,
                   startF, runF, stopF, report>>

\* parallel_for_each over _jobs: ready when run() of every job has resolved
CtxRunReadyAny(js) == \E j \in DOMAIN js : Resolved(js[j].fut)
CtxRunReady(js) == AllResolved(JobFuts(js))

\* the future of context::run of a client resolves
CtxRunResolve(u) ==
    /\ Alive
    /\ IsClient(u)
    /\ runF[u] = "pending"
    /\ CtxRunReady(jobs[u])
    /\ runF' = [runF EXCEPT ![u] = IF AnyFailed(JobFuts(jobs[u])) THEN "failed" ELSE "ok"]
    /\ UNCHANGED <<codec, cfgVars, cfgJobs, now, mainpc, ctx, started, stopped, jobs, srvVars,
                   netVars, startF, stopF, report>>

\* ctx.invoke_on_all(&context::run).get()
RunDone ==
    /\ mainpc = "run"
    /\ AllResolved(runF)
    /\ mainpc' = IF AnyFailed(runF) THEN "failed" ELSE "emit"
    /\ UNCHANGED <<codec, cfgVars, cfgJobs, now, ctx, started, stopped, jobs, srvVars, netVars,
                   startF, runF, stopF, report>>

\* job_rpc::emit_result
JobResult(jb) == [messages |-> jb.total, latencies |-> jb.acc]

\* (uint64_t)mean(_latencies): the mean of whole microseconds, truncated
Average(acc) == acc.sum \div acc.count

\* main emits the document: context::emit_result of every unit in turn
Emit ==
    /\ mainpc = "emit"
    /\ report' = [u \in Units |-> [j \in DOMAIN jobs[u] |-> JobResult(jobs[u][j])]]
    /\ mainpc' = "stop"
    /\ UNCHANGED <<codec, cfgVars, cfgJobs, now, ctx, started, stopped, jobs, srvVars, netVars,
                   startF, runF, stopF>>

\* context::stop on unit u (ctx.stop() calls it on every unit)
StopCall(u) ==
    /\ mainpc = "stop"
    /\ stopF[u] = "none"
    /\ IF IsClient(u)
         THEN /\ byeCall' = [byeCall EXCEPT ![u] = "inflight"]
              /\ sent' = [sent EXCEPT ![u] = @ \cup {BYE}]
              /\ stopF' = [stopF EXCEPT ![u] = "pending"]
              /\ UNCHANGED stopped
         ELSE /\ stopped' = [stopped EXCEPT ![u] = IF IsServer(u) THEN @ \cup {"server"} ELSE @]
              /\ stopF' = [stopF EXCEPT ![u] = "ok"]
              /\ UNCHANGED <<byeCall, sent>>
    /\ UNCHANGED <<codec, cfgVars, cfgJobs, now, mainpc, ctx, started, jobs, srvVars, hello, echo,
                   startF, runF, report>>

\* the peer answers BYE, or the call fails
ByeReply(u, ok) ==
    /\ Alive
    /\ byeCall[u] = "inflight"
    /\ byeCall' = [byeCall EXCEPT ![u] = IF ok THEN "acked" ELSE "failed"]
    /\ UNCHANGED <<codec, cfgVars, cfgJobs, now, mainpc, ctx, started, stopped, jobs, srvVars,
                   sent, hello, echo, startF, runF, stopF, report>>

\* the finally block of context::stop: _client->stop(), then the outcome of
\* the BYE call is the outcome of stop()
ClientStopOnSuccess(u) ==
    /\ Alive
    /\ stopF[u] = "pending"
    /\ byeCall[u] \in {"acked", "failed"}
    /\ stopped' = [stopped EXCEPT ![u] = IF byeCall[u] = "acked" THEN @ \cup {"client"} ELSE @]
    /\ stopF' = [stopF EXCEPT ![u] = IF byeCall[u] = "acked" THEN "ok" ELSE "failed"]
    /\ UNCHANGED <<codec, cfgVars, cfgJobs, now, mainpc, ctx, started, jobs, srvVars, netVars,
                   startF, runF, report>>

ClientStop(u) ==
    /\ Alive
    /\ stopF[u] = "pending"
    /\ byeCall[u] \in {"acked", "failed"}
    /\ stopped' = [stopped EXCEPT ![u] = @ \cup {"client"}]
    /\ stopF' = [stopF EXCEPT ![u] = IF byeCall[u] = "acked" THEN "ok" ELSE "failed"]
    /\ UNCHANGED <<codec, cfgVars, cfgJobs, now, mainpc, ctx, started, jobs, srvVars, netVars,
                   startF, runF, report>>

\* ctx.stop().get(), the last statement of main
StopDone ==
    /\ mainpc = "stop"
    /\ AllResolved(stopF)
    /\ mainpc' = IF AnyFailed(stopF) THEN "failed" ELSE "done"
    /\ UNCHANGED <<codec, cfgVars, cfgJobs, now, ctx, started, stopped, jobs, srvVars, netVars,
                   startF, runF, stopF, report>>

\* ------------------------------------------------------- inbound handlers
\* the server of unit u accepts peers from its construction until it is stopped
Listening(u) == Alive /\ ctx[u] = "ok" /\ IsServer(u) /\ "server" \notin stopped[u]

\* inbound messages handled so far, a repeated HELLO or ECHO counted once
Handled ==
    SumSeq([u \in Units |-> Cardinality(rcvd[u] \ {BYE}) + byeCalls[u]])

\* handler of rpc_verb::HELLO: prints
HandleHello(u) ==
    /\ Listening(u)
    /\ HELLO \in rcvd[u] \/ Handled < MaxInbound
    /\ rcvd' = [rcvd EXCEPT ![u] = @ \cup {HELLO}]
    /\ UNCHANGED <<codec, cfgVars, cfgJobs, now, mainpc, ctx, started, stopped, jobs, bye,
                   byeCalls, netVars, startF, runF, stopF, report>>

\* handler of rpc_verb::ECHO: returns its argument
HandleEcho(u) ==
    /\ Listening(u)
    /\ ECHO \in rcvd[u] \/ Handled < MaxInbound
    /\ rcvd' = [rcvd EXCEPT ![u] = @ \cup {ECHO}]
    /\ UNCHANGED <<codec, cfgVars, cfgJobs, now, mainpc, ctx, started, stopped, jobs, bye,
                   byeCalls, netVars, startF, runF, stopF, report>>

\* handler of rpc_verb::BYE: _bye.set_value(). Fulfilling the promise resolves
\* the future run() handed out, if any. set_value() on a promise that already
\* holds its value is outside the promise's contract: the build either trips
\* the assertion of future_state (the process aborts) or leaves the state as
\* it is.
HandleBye(u) ==
    /\ Listening(u)
    /\ Handled < MaxInbound
    /\ rcvd' = [rcvd EXCEPT ![u] = @ \cup {BYE}]
    /\ byeCalls' = [byeCalls EXCEPT ![u] = @ + 1]
    /\ IF bye[u] = "unset"
         THEN /\ bye' = [bye EXCEPT ![u] = "set"]
              /\ runF' = [runF EXCEPT ![u] =
                            IF ~IsClient(u) /\ @ = "pending" THEN "ok" ELSE @]
              /\ UNCHANGED mainpc
         ELSE /\ mainpc' \in {mainpc, "aborted"}
              /\ UNCHANGED <<bye, runF>>
    /\ UNCHANGED <<codec, cfgVars, cfgJobs, now, ctx, started, stopped, jobs, netVars, startF,
                   stopF, report>>

\* ------------------------------------------------------------------- Next
Next ==
    \/ Tick
    \/ CreateGroups
    \/ \E u \in Units : Construct(u)
    \/ ConstructDone
    \/ \E u \in Units : StartCall(u)
    \/ \E u \in Units, ok \in BOOLEAN : HelloReply(u, ok)
    \/ StartDone
    \/ \E u \in Units : RunCall(u)
    \/ \E u \in Units, j \in 1..MaxJobs : JobStart(u, j)
    \/ \E u \in Units, j \in 1..MaxJobs, k \in 1..(MaxPar + 1), ok \in BOOLEAN :
          EchoReply(u, j, k, ok)
    \/ \E u \in Units, j \in 1..MaxJobs : JobResolve(u, j)
    \/ \E u \in Units : CtxRunResolve(u)
    \/ RunDone
    \/ Emit
    \/ \E u \in Units : StopCall(u)
    \/ \E u \in Units, ok \in BOOLEAN : ByeReply(u, ok)
    \/ \E u \in Units : ClientStop(u)
    \/ StopDone
    \/ \E u \in Units : HandleHello(u)
    \/ \E u \in Units : HandleEcho(u)
    \/ \E u \in Units : HandleBye(u)

Spec == Init /\ [][Next]_vars

\* ------------------------------------------------------------- serializer
\* A value is held as its object representation: the sequence of its bytes
\* in memory, least significant first.
MaxStrLen == 2     \* short strings have 0..MaxStrLen characters; long ones
                   \* have 256..256 + MaxStrLen, so that the size needs two bytes

ByteSamples == {0, 1, 255}
CharSamples == {0, 97}

ArithTypes == {"int32", "uint32", "int64", "uint64", "double"}

\* sizeof(T)
SizeOf(t) == IF t \in {"int32", "uint32"} THEN 4 ELSE 8

IsSigned(t) == t \in {"int32", "int64"}

RECURSIVE Pow256(_)
Pow256(i) == IF i = 0 THEN 1 ELSE 256 * Pow256(i - 1)

\* the object representation of the unsigned number n in w bytes
ObjectRep(n, w) == [i \in 1..w |-> (n \div Pow256(i - 1)) % 256]

\* the unsigned number an object representation holds
RECURSIVE NumberOf(_)
NumberOf(bs) == IF bs = <<>> THEN 0 ELSE Head(bs) + 256 * NumberOf(Tail(bs))

\* conversion of an integer of type `from` to the integer type `to`: the
\* low bytes when it narrows, sign or zero extension when it widens
ConvertInt(bs, from, to) ==
    IF SizeOf(to) <= Len(bs)
      THEN SubSeq(bs, 1, SizeOf(to))
      ELSE bs \o [i \in 1..(SizeOf(to) - Len(bs)) |->
                    IF IsSigned(from) /\ bs[Len(bs)] >= 128 THEN 255 ELSE 0]

\* out.write(p, n)
OutWrite(out, bs) == out \o bs

\* in.read(p, n): n bytes from the cursor, which advances by n; reading past
\* the end of the buffer throws
InRead(in, n) ==
    IF in.pos + n - 1 <= Len(in.buf)
      THEN [ok |-> TRUE, bytes |-> SubSeq(in.buf, in.pos, in.pos + n - 1),
            in |-> [buf |-> in.buf, pos |-> in.pos + n]]
      ELSE [ok |-> FALSE, bytes |-> <<>>, in |-> in]

\* write_arithmetic_type<T>: sizeof(T) bytes of v
WriteArithmeticType(out, t, bs) == OutWrite(out, SubSeq(bs, 1, SizeOf(t)))

\* read_arithmetic_type<T>: sizeof(T) bytes into v
ReadArithmeticType(in, t) == InRead(in, SizeOf(t))

\* the return type of read(serializer, in, rpc::type<T>): uint64_t for int64_t
ReturnType(t) == IF t = "int64" THEN "uint64" ELSE t

\* uint32_t(v.size()); sstring keeps its size in a uint32_t, so the
\* conversion never wraps
SizePrefixNarrow(str) == ObjectRep(Len(str) % 256, SizeOf("uint32"))
SizePrefix(str) == ObjectRep(Len(str), SizeOf("uint32"))

\* write(serializer, out, v)
Write(out, v) ==
    IF v.type = "sstring"
      THEN OutWrite(WriteArithmeticType(out, "uint32", SizePrefix(v.val)), v.val)
      ELSE WriteArithmeticType(out, v.type, v.val)

\* read(serializer, in, rpc::type<sstring>)
ReadString(in) ==
    LET size == ReadArithmeticType(in, "uint32")
        data == InRead(size.in, NumberOf(size.bytes))
    IN IF size.ok /\ data.ok
         THEN [ok |-> TRUE, type |-> "sstring", val |-> data.bytes, in |-> data.in]
         ELSE [ok |-> FALSE, type |-> "sstring", val |-> <<>>, in |-> in]

\* read(serializer, in, rpc::type<T>)
Read(in, t) ==
    IF t = "sstring"
      THEN ReadString(in)
      ELSE LET r == ReadArithmeticType(in, t)
           IN IF ~r.ok
                THEN [ok |-> FALSE, type |-> ReturnType(t), val |-> <<>>, in |-> in]
                ELSE [ok |-> TRUE, type |-> ReturnType(t),
                      val |-> IF t = "double" THEN r.bytes
                              ELSE ConvertInt(r.bytes, t, ReturnType(t)),
                      in |-> r.in]

\* the values the serializer is given
ArithValues == UNION {[type : {t}, val : [1..SizeOf(t) -> ByteSamples]] : t \in ArithTypes}

Strings ==
    UNION {[1..n -> CharSamples] : n \in 0..MaxStrLen}
    \cup {[i \in 1..(256 + n) |-> c] : n \in 0..MaxStrLen, c \in CharSamples}

StringValues == [type : {"sstring"}, val : Strings]

\* what the stream holds before and after the value
Neighbours == {<<>>, <<170>>}

\* the rest of the program stands still while a value goes through the codec
CodecInit ==
    /\ codec \in [pc : {"value"}, v : ArithValues \cup StringValues,
                  before : Neighbours, after : Neighbours]
    /\ smp = 1
    /\ laddr = FALSE
    /\ caddr = FALSE
    /\ duration = 0
    /\ cfgJobs = <<>>
    /\ now = 0
    /\ mainpc = "sg"
    /\ ctx = [u \in Units |-> "none"]
    /\ started = [u \in Units |-> {}]
    /\ stopped = [u \in Units |-> {}]
    /\ jobs = [u \in Units |-> <<>>]
    /\ bye = [u \in Units |-> "unset"]
    /\ byeCalls = [u \in Units |-> 0]
    /\ rcvd = [u \in Units |-> {}]
    /\ sent = [u \in Units |-> {}]
    /\ hello = [u \in Units |-> "none"]
    /\ byeCall = [u \in Units |-> "none"]
    /\ echo = [u \in Units |-> <<>>]
    /\ startF = [u \in Units |-> "none"]
    /\ runF = [u \in Units |-> "none"]
    /\ stopF = [u \in Units |-> "none"]
    /\ report = <<>>

sysVars == <<smp, laddr, caddr, duration, cfgJobs, now, mainpc, ctx, started, stopped, jobs,
             bye, byeCalls, rcvd, sent, hello, byeCall, echo, startF, runF, stopF, report>>

\* the sender appends the value to what the stream already holds
CodecWrite ==
    /\ codec.pc = "value"
    /\ codec' = [pc |-> "written", v |-> codec.v, before |-> codec.before,
                 after |-> codec.after, out |-> Write(codec.before, codec.v)]
    /\ UNCHANGED sysVars

\* the receiver, its cursor past what came before, reads a value of that type
CodecRead ==
    /\ codec.pc = "written"
    /\ LET in == [buf |-> codec.out \o codec.after, pos |-> Len(codec.before) + 1]
           r == Read(in, codec.v.type)
       IN codec' = [pc |-> "read", v |-> codec.v, before |-> codec.before,
                    after |-> codec.after, out |-> codec.out, res |-> r,
                    consumed |-> r.in.pos - in.pos]
    /\ UNCHANGED sysVars

CodecNext == CodecWrite \/ CodecRead

CodecSpec == CodecInit /\ [][CodecNext]_vars

\* ---------------------------------------------------------------- liveness
\* a job whose run() has not resolved and whose deadline the clock has not
\* passed yet
DeadlinePending ==
    \E u \in Units : \E j \in DOMAIN jobs[u] :
        ~Resolved(jobs[u][j].fut) /\ ~StopCond(now, jobs[u][j].stop)

\* steady_clock keeps advancing during the run: past MaxClock as long as some
\* job still waits for its deadline
LateTick ==
    /\ caddr
    /\ mainpc = "run"
    /\ now >= MaxClock
    /\ DeadlinePending
    /\ now' = now + 1
    /\ UNCHANGED <<codec, cfgVars, cfgJobs, mainpc, ctx, started, stopped, jobs, srvVars,
                   netVars, startF, runF, stopF, report>>

LiveNext == Next \/ LateTick

\* the clock advances; the reactor runs every task that is ready; the peer
\* answers every call
Fairness ==
    /\ WF_vars(Tick \/ LateTick)
    /\ \A u \in 1..NumUnits :
          /\ WF_vars(u \in Units /\ CtxRunResolve(u))
          /\ \A j \in 1..MaxJobs :
                /\ WF_vars(u \in Units /\ JobStart(u, j))
                /\ WF_vars(u \in Units /\ JobResolve(u, j))
                /\ \A k \in 1..MaxPar :
                      WF_vars(u \in Units /\ EchoReply(u, j, k, TRUE))

LiveSpec == Init /\ [][LiveNext]_vars /\ Fairness

\* ----------------------------------------------------------------- claims
InFlight(u, j) == SumSeq(echo[u][j])
SomeLoop(jb, st) == \E k \in DOMAIN jb.loops : jb.loops[k].st = st
ServerOnly(u) == IsServer(u) /\ ~IsClient(u)

\* C1: run() of a job never completes while the clock is at or before the
\* job's deadline: whenever run() has completed (and even when it has failed
\* after some loop ended by its deadline check), the clock is strictly past
\* _stop.
C1_RunCompletesPastDeadline ==
    \A u \in Units : \A j \in DOMAIN jobs[u] :
        LET jb == jobs[u][j]
        IN (jb.fut = "ok" \/ (jb.fut = "failed" /\ SomeLoop(jb, "done")))
              => now > jb.stop

C1_Witness ==
    \E u \in Units : \E j \in DOMAIN jobs[u] :
        /\ jobs[u][j].fut = "ok"
        /\ jobs[u][j].acc.count >= 1
        /\ now > jobs[u][j].stop

\* C2: whenever run() of a job has completed successfully, its total call
\* count is at least its concurrency, whatever the delay between the job's
\* construction and the start of run() (stated for the jobs of a positive
\* duration, where the deadline is not the construction time itself).
C2_AtLeastOneCallPerLoop ==
    \A u \in Units : \A j \in DOMAIN jobs[u] :
        (jobs[u][j].cfg.duration >= 1 /\ jobs[u][j].fut = "ok")
            => jobs[u][j].total >= jobs[u][j].cfg.parallelism

\* C3: once run() of a job has resolved, every one of its `parallelism` loops
\* has terminated and none of its calls is in flight; once run() of a client
\* context has resolved, run() of every job it owns has resolved.
C3_RunAfterAllLoops ==
    /\ \A u \in Units : \A j \in DOMAIN jobs[u] :
          LET jb == jobs[u][j]
          IN Resolved(jb.fut) =>
                /\ Len(jb.loops) = jb.cfg.parallelism
                /\ \A k \in DOMAIN jb.loops : jb.loops[k].st \in {"done", "failed"}
                /\ InFlight(u, j) = 0
    /\ \A u \in Units :
          (IsClient(u) /\ Resolved(runF[u])) =>
              \A j \in DOMAIN jobs[u] : Resolved(jobs[u][j].fut)

C3_Witness ==
    \E u \in Units :
        /\ IsClient(u)
        /\ runF[u] = "ok"
        /\ Len(jobs[u]) = 2
        /\ \E j \in DOMAIN jobs[u] :
              jobs[u][j].cfg.parallelism = 2 /\ jobs[u][j].acc.count >= 2

\* C4: a loop has at most one call awaiting its response, exactly when it is
\* suspended in the call, so the calls of a job in flight never exceed its
\* concurrency.
C4_LoopsSequential ==
    \A u \in Units : \A j \in DOMAIN jobs[u] :
        /\ \A k \in DOMAIN echo[u][j] :
              /\ echo[u][j][k] <= 1
              /\ echo[u][j][k] = 1 <=> jobs[u][j].loops[k].st = "await"
        /\ InFlight(u, j) <= jobs[u][j].cfg.parallelism

C4_Witness ==
    \E u \in Units : \E j \in DOMAIN jobs[u] :
        /\ jobs[u][j].cfg.parallelism = 2
        /\ InFlight(u, j) = 2
        /\ jobs[u][j].acc.count >= 1

\* C5 as stated: in every reachable state the total call count equals the
\* number of latency samples the accumulator has observed.
C5_CountEqualsSamples ==
    \A u \in Units : \A j \in DOMAIN jobs[u] :
        jobs[u][j].total = jobs[u][j].acc.count

\* C5 as amended: the counter is incremented when the call is issued, before
\* its response: the total call count is never below the number of samples
\* observed, and equals it when no call of the job is in flight and none has
\* failed.
C5_CountedAtIssue ==
    \A u \in Units : \A j \in DOMAIN jobs[u] :
        LET jb == jobs[u][j]
        IN /\ jb.acc.count <= jb.total
           /\ (InFlight(u, j) = 0 /\ ~SomeLoop(jb, "failed")) => jb.total = jb.acc.count

C5_Witness ==
    \E u \in Units : \E j \in DOMAIN jobs[u] :
        /\ jobs[u][j].acc.count >= 1
        /\ jobs[u][j].total > jobs[u][j].acc.count
        /\ InFlight(u, j) >= 1

\* C6: start() of a client sends HELLO and resolves only with its reply; no
\* ECHO call is issued on any unit before the HELLO of every client unit is
\* acknowledged; start() of a context that is no client is ready at once and
\* sends nothing.
C6_HelloBeforeEcho ==
    /\ \A u \in Units :
          IsClient(u) =>
              /\ startF[u] # "none" => HELLO \in sent[u]
              /\ startF[u] = "ok" => hello[u] = "acked"
    /\ (\E u \in Units : ECHO \in sent[u]) =>
          \A v \in Units : IsClient(v) => hello[v] = "acked"
    /\ \A u \in Units :
          ~IsClient(u) =>
              startF[u] \in {"none", "ok"} /\ hello[u] = "none" /\ sent[u] = {}

C6_Witness ==
    /\ smp = 2
    /\ \E u \in Units : ECHO \in sent[u]
    /\ \A v \in Units : IsClient(v) /\ hello[v] = "acked"

\* C7: run() of a server-only context is not complete before the context has
\* received BYE, and is complete once BYE has been received and run() has
\* been called, in either order; HELLO and ECHO do not complete it.
C7_ServerRunsUntilBye ==
    \A u \in Units :
        ServerOnly(u) =>
            /\ runF[u] = "ok" => (bye[u] = "set" /\ BYE \in rcvd[u])
            /\ (bye[u] = "set" /\ runF[u] # "none") => runF[u] = "ok"
            /\ runF[u] # "failed"

C7_Witness ==
    \E u \in Units :
        /\ ServerOnly(u)
        /\ runF[u] = "ok"
        /\ HELLO \in rcvd[u]

\* C8: when start() or run() has failed on some unit, stop() is still
\* executed on every unit before the process ends.
C8_StopAfterFault ==
    (mainpc = "failed" /\ \E u \in Units : startF[u] = "failed" \/ runF[u] = "failed")
        => \A u \in Units : Resolved(stopF[u]) /\ started[u] \subseteq stopped[u]

\* C9: a configuration with a job of unknown type or verb makes the context's
\* constructor throw before any network activity of that context and before
\* any call; start() and run() are never reached.
C9_ConfigErrorBeforeNetwork ==
    \A u \in Units :
        ctx[u] = "threw" =>
            /\ started[u] = {}
            /\ sent[u] = {}
            /\ startF[u] = "none" /\ runF[u] = "none"

\* C10: a failed call is not swallowed: the loop whose call failed stays
\* failed and issues no further call, run() of its job and of its context do
\* not end in success, and main gets past run() on no unit.
C10_FailedLoop(u, j, k) ==
    /\ j \in DOMAIN jobs[u]
    /\ k \in DOMAIN jobs[u][j].loops
    /\ jobs[u][j].loops[k].st = "failed"

C10_FailureNotSwallowed ==
    /\ [](\A u \in Units : \A j \in 1..MaxJobs : \A k \in 1..MaxPar :
            C10_FailedLoop(u, j, k) =>
                /\ echo[u][j][k] = 0
                /\ jobs[u][j].fut # "ok"
                /\ runF[u] # "ok"
                /\ mainpc \notin {"emit", "stop", "done"})
    /\ [][\A u \in Units : \A j \in 1..MaxJobs : \A k \in 1..MaxPar :
            C10_FailedLoop(u, j, k) =>
                /\ jobs'[u][j].loops[k].st = "failed"
                /\ echo'[u][j][k] = 0]_vars

C10_Witness ==
    /\ mainpc = "failed"
    /\ \E u \in Units : \E j \in DOMAIN jobs[u] :
          /\ SomeLoop(jobs[u][j], "failed")
          /\ SomeLoop(jobs[u][j], "done")
          /\ jobs[u][j].fut = "failed"
          /\ runF[u] = "failed"

\* C11: the report is emitted only after run() has completed on every unit:
\* when the statistics are read no loop is active and no call is in flight,
\* so the report holds the final statistics; BYE is sent and the connection
\* is released only after the report has been emitted.
C11_ReportAfterRun ==
    /\ report # <<>> =>
          \A u \in Units :
              /\ runF[u] = "ok"
              /\ \A j \in DOMAIN jobs[u] :
                    /\ ~SomeLoop(jobs[u][j], "await")
                    /\ InFlight(u, j) = 0
                    /\ report[u][j] = JobResult(jobs[u][j])
    /\ \A u \in Units :
          (BYE \in sent[u] \/ byeCall[u] # "none" \/ stopF[u] # "none" \/ stopped[u] # {})
              => report # <<>>

C11_Witness ==
    /\ mainpc = "done"
    /\ \E u \in Units :
          /\ "client" \in stopped[u]
          /\ BYE \in sent[u]
          /\ \E j \in DOMAIN report[u] : report[u][j].messages >= 2

\* C12: the scheduling group of every configured job is created exactly
\* once, before any unit's context is constructed; from then on every job has
\* a group of its own, neither the default group nor another job's, and every
\* call loop of a job runs under the group of its job, on every unit.
C12_LoopsUnderOwnGroup ==
    /\ [](/\ mainpc = "sg" => \A u \in Units : ctx[u] = "none"
          /\ mainpc # "sg" =>
                \A j \in DOMAIN cfgJobs :
                    /\ cfgJobs[j].sg # DefaultSg
                    /\ \A i \in DOMAIN cfgJobs : cfgJobs[i].sg = cfgJobs[j].sg => i = j
          /\ \A u \in Units : \A j \in DOMAIN jobs[u] :
                /\ jobs[u][j].cfg.sg = cfgJobs[j].sg
                /\ \A k \in DOMAIN jobs[u][j].loops :
                      jobs[u][j].loops[k].sg = cfgJobs[j].sg)
    /\ [][mainpc # "sg" => cfgJobs' = cfgJobs]_vars

C12_Witness ==
    \E u \in Units :
        /\ Len(jobs[u]) = 2
        /\ \A j \in DOMAIN jobs[u] :
              /\ jobs[u][j].loops # <<>>
              /\ jobs[u][j].loops[1].sg = j
              /\ jobs[u][j].loops[1].sg # DefaultSg

\* C13: for every value of int32, uint32, int64, uint64 or double, reading
\* the bytes written for it returns the same bits and consumes sizeof(type)
\* bytes (4, 4, 8, 8, 8); for every string, reading the bytes written for it
\* returns an equal string and consumes 4 + length bytes, 4 for the empty
\* string.
C13_RoundTrip ==
    codec.pc = "read" =>
        /\ codec.res.ok
        /\ codec.res.val = codec.v.val
        /\ codec.v.type \in {"int32", "uint32"} => codec.consumed = 4
        /\ codec.v.type \in {"int64", "uint64", "double"} => codec.consumed = 8
        /\ codec.v.type = "sstring" => codec.consumed = 4 + Len(codec.v.val)

C13_Witness ==
    /\ codec.pc = "read"
    /\ codec.v.type = "sstring"
    /\ Len(codec.v.val) > 256
    /\ codec.before # <<>> /\ codec.after # <<>>
    /\ codec.res.val = codec.v.val
    /\ codec.consumed = 4 + Len(codec.v.val)

\* C14: whenever a job's accumulator has been given samples, by whatever
\* interleaving of the job's loops, its max is the largest of the samples
\* given, whatever their order, and is not below its average; the report
\* shows that max.
C14_TrueMax(smpls) == CHOOSE m \in {smpls[i] : i \in DOMAIN smpls} :
                          \A i \in DOMAIN smpls : smpls[i] <= m

C14_MaxIsTrueMax ==
    \A u \in Units : \A j \in DOMAIN jobs[u] :
        LET jb == jobs[u][j]
        IN jb.samples # <<>> =>
              /\ jb.acc.count = Len(jb.samples)
              /\ jb.acc.sum = SumSeq(jb.samples)
              /\ jb.acc.max = C14_TrueMax(jb.samples)
              /\ jb.acc.max >= Average(jb.acc)
              /\ report # <<>> =>
                    /\ report[u][j].latencies.max = C14_TrueMax(jb.samples)
                    /\ report[u][j].latencies.max >= Average(report[u][j].latencies)

C14_Witness ==
    /\ report # <<>>
    /\ \E u \in Units : \E j \in DOMAIN jobs[u] :
          /\ jobs[u][j].cfg.parallelism = 2
          /\ Len(jobs[u][j].samples) >= 3
          /\ jobs[u][j].samples[1] > jobs[u][j].samples[2]
          /\ report[u][j].latencies.max > Average(report[u][j].latencies)

\* C15: the deadline ends a loop only at its own check: a loop that has
\* terminated saw the deadline passed, stays terminated and has no call in
\* flight; a call in flight was issued when the check of its loop saw the
\* deadline not yet passed; the clock passing the deadline cancels nothing;
\* once the deadline has passed a loop only waits for the call it has in
\* flight and then ends, with that call's sample or failure, issuing no other.
C15_Loop(u, j, k) == j \in DOMAIN jobs[u] /\ k \in DOMAIN jobs[u][j].loops

C15_CooperativeDeadline ==
    /\ [](\A u \in Units : \A j \in 1..MaxJobs : \A k \in 1..MaxPar :
            C15_Loop(u, j, k) =>
                LET jb == jobs[u][j]
                    l == jb.loops[k]
                IN /\ l.st = "done" => (StopCond(now, jb.stop) /\ echo[u][j][k] = 0)
                   /\ l.st = "await" => (~StopCond(l.start, jb.stop) /\ echo[u][j][k] = 1))
    /\ [][/\ now' # now => (jobs' = jobs /\ echo' = echo)
          /\ \A u \in Units : \A j \in 1..MaxJobs : \A k \in 1..MaxPar :
                C15_Loop(u, j, k) =>
                    LET jb == jobs[u][j]
                        l == jb.loops[k]
                        nl == jobs'[u][j].loops[k]
                    IN /\ l.st = "done" => (nl = l /\ echo'[u][j][k] = 0)
                       /\ (l.st = "await" /\ nl.st # "await") =>
                             /\ echo'[u][j][k] = 0
                             /\ nl.st = "failed" \/
                                  (nl.st = "done" /\ Len(jobs'[u][j].samples) = Len(jb.samples) + 1)
                       /\ (l.st = "await" /\ StopCond(now, jb.stop)) =>
                             /\ nl.st = "await" => (nl = l /\ jobs'[u][j].total = jb.total)
                             /\ jobs'[u][j].total = jb.total
                       /\ (l.st = "await" /\ nl.st = "await" /\ jobs'[u][j].total # jb.total) =>
                             ~StopCond(now, jb.stop)]_vars

C15_Witness ==
    \E u \in Units : \E j \in DOMAIN jobs[u] :
        /\ StopCond(now, jobs[u][j].stop)
        /\ SomeLoop(jobs[u][j], "done")
        /\ SomeLoop(jobs[u][j], "await")
        /\ jobs[u][j].samples # <<>>

\* C16: stop() of a client sends BYE first; the outbound connection is closed
\* only after the BYE call has finished, and it is closed whether that call
\* succeeded or failed; stop() resolves after the close, and it fails exactly
\* when the BYE call failed.
C16_ByeThenClose ==
    \A u \in Units :
        IsClient(u) =>
            /\ stopF[u] # "none" => (BYE \in sent[u] /\ byeCall[u] # "none")
            /\ "client" \in stopped[u] => byeCall[u] \in {"acked", "failed"}
            /\ Resolved(stopF[u]) => "client" \in stopped[u]
            /\ stopF[u] = "ok" => byeCall[u] = "acked"
            /\ stopF[u] = "failed" => byeCall[u] = "failed"
            /\ (stopF[u] = "pending" /\ byeCall[u] = "inflight") => "client" \notin stopped[u]

C16_Witness ==
    \E u \in Units :
        /\ IsClient(u)
        /\ byeCall[u] = "failed"
        /\ "client" \in stopped[u]
        /\ stopF[u] = "failed"

\* C17: in every reachable state the message counter of a job equals the
\* samples its accumulator has observed plus its calls in flight plus its
\* calls that failed; the counter moves only when a loop of that job issues a
\* call; when run() of the job has succeeded it equals the samples observed.
C17_Failed(jb) == Cardinality({k \in DOMAIN jb.loops : jb.loops[k].st = "failed"})

C17_Awaiting(jb) == Cardinality({k \in DOMAIN jb.loops : jb.loops[k].st = "await"})

C17_CounterBalance ==
    /\ [](\A u \in Units : \A j \in DOMAIN jobs[u] :
            LET jb == jobs[u][j]
            IN /\ jb.total = jb.acc.count + InFlight(u, j) + C17_Failed(jb)
               /\ jb.fut = "ok" => jb.total = jb.acc.count)
    /\ [][\A u \in Units : \A j \in DOMAIN jobs[u] :
            LET jb == jobs[u][j]
                nb == jobs'[u][j]
            IN nb.total # jb.total =>
                  /\ mainpc = "run" /\ jb.fut = "pending"
                  /\ \/ /\ jb.loops = <<>>
                        /\ nb.total = jb.total + C17_Awaiting(nb)
                        /\ C17_Awaiting(nb) = jb.cfg.parallelism
                     \/ /\ jb.loops # <<>>
                        /\ nb.total = jb.total + 1
                        /\ nb.acc.count = jb.acc.count + 1
                        /\ \E k \in DOMAIN jb.loops :
                              /\ jb.loops[k].st = "await" /\ nb.loops[k].st = "await"
                              /\ nb.loops[k].start = now
                              /\ \A i \in DOMAIN jb.loops : i # k => nb.loops[i] = jb.loops[i]
                  /\ \A v \in Units : \A i \in DOMAIN jobs[v] :
                        <<v, i>> # <<u, j>> => jobs'[v][i] = jobs[v][i]]_vars

C17_Witness ==
    \E u \in Units : \E j \in DOMAIN jobs[u] :
        /\ jobs[u][j].acc.count >= 1
        /\ InFlight(u, j) >= 1
        /\ C17_Failed(jobs[u][j]) >= 1
        /\ jobs[u][j].total >= 3

\* C18: whatever HELLO, BYE and ECHO messages arrive, from however many
\* peers, the farewell promise of a context is fulfilled at most once: no
\* BYE handler calls set_value on a promise that is already fulfilled, and
\* the process is not brought down by one.
C18_ByeFulfilledOnce ==
    /\ \A u \in Units : byeCalls[u] <= 1
    /\ mainpc # "aborted"

\* C19: once stop() of a context has completed, every endpoint its
\* constructor started has been stopped, whatever roles the context has: the
\* listener too when the context both listens and connects.
C19_AllEndpointsStopped ==
    \A u \in Units : Resolved(stopF[u]) => started[u] \subseteq stopped[u]

\* C20: with the clock advancing and every call answered, every loop that
\* waits for a call eventually terminates and run() of every client context
\* that has been called eventually completes; and run() of a job or of its
\* context is never complete while one of the job's calls is in flight.
C20_RunTerminates ==
    /\ \A u \in 1..NumUnits :
          (u \in Units /\ IsClient(u) /\ runF[u] = "pending") ~> (u \in Units /\ Resolved(runF[u]))
    /\ \A u \in 1..NumUnits : \A j \in 1..MaxJobs : \A k \in 1..MaxPar :
          (u \in Units /\ C15_Loop(u, j, k) /\ jobs[u][j].loops[k].st = "await")
              ~> (u \in Units /\ C15_Loop(u, j, k)
                    /\ jobs[u][j].loops[k].st \in {"done", "failed"})
    /\ [](\A u \in Units : \A j \in DOMAIN jobs[u] :
            InFlight(u, j) > 0 => (~Resolved(jobs[u][j].fut) /\ ~Resolved(runF[u])))

====
